---- MODULE Spec2Model ----
(***************************************************************************)
(* A model of the prototype gallery's scan / cache / publish / render      *)
(* pipeline (sync-prototypes.js), of the search overlay script that the    *)
(* rendered gallery page embeds, and of the steps of deploy.sh.            *)
(*                                                                         *)
(* Strings are sequences of one-character strings, so that formatting,     *)
(* lower-casing and substring search are computed and not assumed.         *)
(* Times are integers (milliseconds since some origin).                    *)
(***************************************************************************)
EXTENDS Integers, Sequences, FiniteSets, TLC

VARIABLES
    tree,             \* the prototypes directory on disk
    mtime,            \* path of an item |-> modification time of its index.html
    cacheFile,        \* content of gallery/deployments.json
    now,              \* the wall clock
    pc,               \* position of the process in main / syncPrototypes
    prototypes,       \* syncPrototypes: const prototypes (the scan result)
    deploymentCache,  \* syncPrototypes: const deploymentCache (the loaded value)
    todo,             \* the items the double loop of syncPrototypes has yet to visit
    cur,              \* the item whose publish subprocess is running
    history,          \* what the loop did with each item visited so far (ran: the
                      \* publish subprocess was run; url: what deployPrototype returned)
    fileAtStart,      \* content of the cache file when the run began
    fatal,            \* why the process exited with code 1, "" while it has not
    gallery,          \* gallery/index.html as generated (tiles and embedded data)
    paletteOpen,      \* page: cmdPalette.classList.contains('open')
    inputValue,       \* page: cmdInput.value
    selectedIndex,    \* page: let selectedIndex
    filteredResults,  \* page: let filteredResults
    location,         \* page: window.location.href
    sh,               \* deploy.sh: position, exit code, state of $GALLERY_DIR
    other,            \* a second run of sync-prototypes.js in the same directory
    pm                \* prototype-manager: config.json, prototypes/ and the program run

vars == <<tree, mtime, cacheFile, now, pc, prototypes, deploymentCache, todo, cur,
          history, fileAtStart, fatal, gallery, paletteOpen, inputValue,
          selectedIndex, filteredResults, location, sh, other, pm>>

fsVars   == <<tree, mtime, cacheFile, now>>
runVars  == <<pc, prototypes, deploymentCache, todo, cur, history, fileAtStart, fatal>>
pageVars == <<paletteOpen, inputValue, selectedIndex, filteredResults, location>>

(***************************************************************************)
(* Bounds of the model.                                                    *)
(***************************************************************************)
MaxTop  == 2   \* entries listed in the prototypes directory
MaxKids == 2   \* entries listed in one feature directory
MaxTime == 3   \* the clock stops advancing here
MaxQuery == 1  \* characters typed into the search box
MaxItems == 2  \* prototypes in the directory when the whole run is explored
MaxDepth == 2  \* directory levels below the source directory of deploy.sh
MaxRuns == 2   \* programs of the prototype-manager started one after the other

(***************************************************************************)
(* Strings.                                                                *)
(***************************************************************************)
Lower == {"a", "b", "c", "i", "k", "m", "o", "p", "u", "x", "y"}
Upper == {"A", "B", "C", "I", "K", "M", "O", "P", "U", "X", "Y"}
Digits == {"0", "1", "2", "3", "4", "5", "6", "7", "8", "9"}

toUpperChar(c) ==
    CASE c = "a" -> "A" [] c = "b" -> "B" [] c = "c" -> "C" [] c = "i" -> "I"
      [] c = "k" -> "K" [] c = "m" -> "M" [] c = "o" -> "O" [] c = "p" -> "P"
      [] c = "u" -> "U" [] c = "x" -> "X" [] c = "y" -> "Y" [] OTHER -> c

toLowerChar(c) ==
    CASE c = "A" -> "a" [] c = "B" -> "b" [] c = "C" -> "c" [] c = "I" -> "i"
      [] c = "K" -> "k" [] c = "M" -> "m" [] c = "O" -> "o" [] c = "P" -> "p"
      [] c = "U" -> "u" [] c = "X" -> "x" [] c = "Y" -> "y" [] OTHER -> c

\* String.prototype.toLowerCase
toLowerCase(s) == [i \in 1..Len(s) |-> toLowerChar(s[i])]

\* String.prototype.includes
includes(s, q) ==
    \E i \in 1..(Len(s) - Len(q) + 1) : SubSeq(s, i, i + Len(q) - 1) = q

\* a character of the class \w
IsWordChar(c) == c \in Lower \cup Upper \cup Digits \cup {"_"}

DigitVal(c) ==
    CASE c = "0" -> 0 [] c = "1" -> 1 [] c = "2" -> 2 [] c = "3" -> 3 [] c = "4" -> 4
      [] c = "5" -> 5 [] c = "6" -> 6 [] c = "7" -> 7 [] c = "8" -> 8 [] c = "9" -> 9

RECURSIVE NumVal(_)
NumVal(s) == IF s = <<>> THEN 0
             ELSE 10 * NumVal(SubSeq(s, 1, Len(s) - 1)) + DigitVal(s[Len(s)])

\* s.replace(/-/g, ' ')
DashesToSpaces(s) == [i \in 1..Len(s) |-> IF s[i] = "-" THEN " " ELSE s[i]]

\* s.replace(/\b\w/g, l => l.toUpperCase()): a word character that starts a word
CapitalizeWords(s) ==
    [i \in 1..Len(s) |->
        IF IsWordChar(s[i]) /\ (i = 1 \/ ~IsWordChar(s[i - 1]))
        THEN toUpperChar(s[i]) ELSE s[i]]

MockupSp == <<"M", "o", "c", "k", "u", "p", " ">>

\* s.replace(/Mockup \d+/, m => m.replace(/(\d+)/, '#$1')): the first match only
HashMockup(s) ==
    LET hits == {i \in 1..Len(s) :
                    /\ i + 7 <= Len(s)
                    /\ SubSeq(s, i, i + 6) = MockupSp
                    /\ s[i + 7] \in Digits}
    IN IF hits = {} THEN s
       ELSE LET i == CHOOSE j \in hits : \A k \in hits : j <= k
            IN SubSeq(s, 1, i + 6) \o <<"#">> \o SubSeq(s, i + 7, Len(s))

\* s.replace(/Ai /g, 'AI ')
UpperAi(s) ==
    [i \in 1..Len(s) |->
        IF i >= 2 /\ i + 1 <= Len(s) /\ s[i - 1] = "A" /\ s[i] = "i" /\ s[i + 1] = " "
        THEN "I" ELSE s[i]]

formatName(slug) == UpperAi(HashMockup(CapitalizeWords(DashesToSpaces(slug))))

(***************************************************************************)
(* A JavaScript object with string keys: its own properties in insertion   *)
(* order, as a sequence of [k, v].  Object.entries lists the keys that are *)
(* array indices first, in ascending numeric order, then the other keys in *)
(* insertion order.                                                        *)
(***************************************************************************)
ObjKeys(o) == {o[i].k : i \in 1..Len(o)}
ObjHas(o, key) == key \in ObjKeys(o)
ObjGet(o, key) == o[CHOOSE i \in 1..Len(o) : o[i].k = key].v

ObjSet(o, key, val) ==
    IF ObjHas(o, key)
    THEN [i \in 1..Len(o) |-> IF o[i].k = key THEN [k |-> key, v |-> val] ELSE o[i]]
    ELSE Append(o, [k |-> key, v |-> val])

ObjDelete(o, key) == SelectSeq(o, LAMBDA e : e.k # key)

IsArrayIndex(key) ==
    /\ Len(key) > 0
    /\ \A i \in 1..Len(key) : key[i] \in Digits
    /\ (Len(key) > 1 => key[1] # "0")

RECURSIVE SortByNum(_)
SortByNum(S) ==
    IF S = {} THEN <<>>
    ELSE LET m == CHOOSE e \in S : \A f \in S : NumVal(e.k) <= NumVal(f.k)
         IN <<m>> \o SortByNum(S \ {m})

ObjectEntries(o) ==
    SortByNum({o[i] : i \in {j \in 1..Len(o) : IsArrayIndex(o[j].k)}})
        \o SelectSeq(o, LAMBDA e : ~IsArrayIndex(e.k))

(***************************************************************************)
(* The prototypes directory.  tree.rootOK: readdir of the root succeeds.   *)
(* tree.entries: what readdir lists, in listing order.  An entry has a     *)
(* name, a kind ("dir", "file", or "bad": stat of it throws, as for a      *)
(* dangling symbolic link), and for a directory: index (it holds an        *)
(* accessible index.html), list (readdir of it succeeds) and kids, its own *)
(* listing.  A kid has name, kind, index, and deep: an index.html lies     *)
(* further below it.                                                       *)
(***************************************************************************)
NodeModules == <<"n", "o", "d", "e", "_", "m", "o", "d", "u", "l", "e", "s">>
DotGit      == <<".", "g", "i", "t">>
DotDSStore  == <<".", "D", "S", "_", "S", "t", "o", "r", "e">>

\* CONFIG.excludeDirs
excludeDirs == {NodeModules, DotGit, DotDSStore}

TopNames == {<<"a", "i">>, <<"2">>, DotGit}
KidNames == {<<"x">>, <<"a", "i", "-", "y">>, NodeModules}

DefaultDescription ==
    <<"I", "n", "t", "e", "r", "a", "c", "t", "i", "v", "e", " ",
      "p", "r", "o", "t", "o", "t", "y", "p", "e">>

\* What extractDescription returns for the index.html of the directory at path:
\* the processed title of the file, or the default when the file has no title or
\* cannot be read.  The titles of the files under "x" directories are "Ai".
extractDescription(path) ==
    IF path[Len(path)] = <<"x">> THEN <<"A", "i">> ELSE DefaultDescription

Kid(n, kd, ix, dp) == [name |-> n, kind |-> kd, index |-> ix, deep |-> dp]

KidEntries(n) ==
    IF n \in excludeDirs
    THEN {Kid(n, "bad", FALSE, FALSE), Kid(n, "dir", TRUE, FALSE)}
    ELSE {Kid(n, "file", FALSE, FALSE), Kid(n, "bad", FALSE, FALSE),
          Kid(n, "dir", TRUE, FALSE), Kid(n, "dir", FALSE, FALSE),
          Kid(n, "dir", FALSE, TRUE)}

\* the sequences of at most n entries of E with distinct names
RECURSIVE Listings(_, _)
Listings(E, n) ==
    IF n = 0 THEN {<<>>}
    ELSE LET S == Listings(E, n - 1)
         IN S \cup UNION {{Append(l, e) :
                               e \in {f \in E : \A i \in 1..(n - 1) : l[i].name # f.name}}
                            : l \in {m \in S : Len(m) = n - 1}}

KidListings(maxKids) == Listings(UNION {KidEntries(n) : n \in KidNames}, maxKids)

Top(n, kd, ix, ls, ks) == [name |-> n, kind |-> kd, index |-> ix, list |-> ls, kids |-> ks]

TopEntries(n, maxKids) ==
    IF n \in excludeDirs
    THEN {Top(n, "bad", FALSE, TRUE, <<>>), Top(n, "dir", TRUE, TRUE, <<>>)}
    ELSE {Top(n, "file", FALSE, TRUE, <<>>), Top(n, "bad", FALSE, TRUE, <<>>),
          Top(n, "dir", TRUE, TRUE, <<>>),
          Top(n, "dir", TRUE, TRUE, <<Kid(<<"x">>, "dir", TRUE, FALSE)>>),
          Top(n, "dir", FALSE, FALSE, <<>>)}
         \cup {Top(n, "dir", FALSE, TRUE, ks) : ks \in KidListings(maxKids)}

\* the trees with at most maxTop entries, each with at most maxKids entries
Trees(maxTop, maxKids) ==
    {[rootOK |-> FALSE, entries |-> <<>>]} \cup
    {[rootOK |-> TRUE, entries |-> es] :
        es \in Listings(UNION {TopEntries(n, maxKids) : n \in TopNames}, maxTop)}

(***************************************************************************)
(* scanPrototypes.  An exception thrown inside the outer try block (a      *)
(* failed stat, a failed readdir) leaves the loop and reaches the catch    *)
(* at the end, which logs; the function then returns the object as built   *)
(* so far.                                                                 *)
(***************************************************************************)
Item(slug, path) ==
    [name |-> formatName(slug), slug |-> slug, path |-> path,
     description |-> extractDescription(path)]

\* the inner loop over subItems: the items pushed, and whether fs.stat threw
RECURSIVE ScanSubItems(_, _, _)
ScanSubItems(feature, subItems, items) ==
    IF subItems = <<>> THEN [items |-> items, threw |-> FALSE]
    ELSE LET item == Head(subItems) IN
         IF item.name \in excludeDirs
         THEN ScanSubItems(feature, Tail(subItems), items)
         ELSE IF item.kind = "bad"
         THEN [items |-> items, threw |-> TRUE]
         ELSE IF item.kind = "dir" /\ item.index
         THEN ScanSubItems(feature, Tail(subItems),
                           Append(items, Item(item.name, <<feature, item.name>>)))
         ELSE ScanSubItems(feature, Tail(subItems), items)

\* the body of the outer loop for one entry of the root
ScanFeature(obj, e) ==
    IF e.name \in excludeDirs THEN [obj |-> obj, threw |-> FALSE]
    ELSE IF e.kind = "bad" THEN [obj |-> obj, threw |-> TRUE]
    ELSE IF e.kind # "dir" THEN [obj |-> obj, threw |-> FALSE]
    ELSE LET created == ObjSet(obj, e.name, <<>>) IN
         IF e.index
         THEN [obj |-> ObjSet(created, e.name, <<Item(e.name, <<e.name>>)>>),
               threw |-> FALSE]
         ELSE IF ~e.list THEN [obj |-> created, threw |-> TRUE]
         ELSE LET r == ScanSubItems(e.name, e.kids, <<>>) IN
              IF r.threw THEN [obj |-> ObjSet(created, e.name, r.items), threw |-> TRUE]
              ELSE IF Len(r.items) = 0
              THEN [obj |-> ObjDelete(created, e.name), threw |-> FALSE]
              ELSE [obj |-> ObjSet(created, e.name, r.items), threw |-> FALSE]

RECURSIVE ScanFeatures(_, _)
ScanFeatures(features, obj) ==
    IF features = <<>> THEN obj
    ELSE LET r == ScanFeature(obj, Head(features)) IN
         IF r.threw THEN r.obj ELSE ScanFeatures(Tail(features), r.obj)

scanPrototypes(t) == IF ~t.rootOK THEN <<>> ELSE ScanFeatures(t.entries, <<>>)

(***************************************************************************)
(* The deployment cache.  The file gallery/deployments.json is missing,    *)
(* unreadable, malformed (not JSON), or holds JSON: null, a number, or an  *)
(* object, a mapping from slugs to records (map).  The value in memory is  *)
(* what JSON.parse returned: an object, null or a number.                  *)
(***************************************************************************)
EmptyMap == <<>>
EmptyObject == [kind |-> "object", map |-> EmptyMap]

loadDeploymentCache(file) ==
    IF file.kind \in {"missing", "unreadable", "malformed"}
    THEN EmptyObject                                 \* the catch: return {}
    ELSE [kind |-> file.kind, map |-> file.map]      \* JSON.parse(data)

\* what JSON.stringify(cache, null, 2) writes
saveDeploymentCache(cache) == [kind |-> cache.kind, map |-> cache.map]

\* cache[slug] throws a TypeError when cache is null
Throws(cache) == cache.kind = "null"

\* cache[slug]: <<>> is undefined, <<r>> the record r
CacheGet(cache, slug) ==
    IF cache.kind = "object" /\ slug \in DOMAIN cache.map
    THEN <<cache.map[slug]>> ELSE <<>>

\* CacheSet replacing the whole mapping by the one record
CacheSetAlone(cache, slug, rec) ==
    IF cache.kind = "object"
    THEN [cache EXCEPT !.map = [s \in {slug} |-> rec]]
    ELSE cache

\* cache[slug] = rec: an assignment to a property of a number is dropped silently
\* (the script is not in strict mode)
CacheSet(cache, slug, rec) ==
    IF cache.kind = "object"
    THEN [cache EXCEPT !.map =
            [s \in (DOMAIN cache.map) \cup {slug} |->
                IF s = slug THEN rec ELSE cache.map[s]]]
    ELSE cache

(***************************************************************************)
(* The change detector.  st is what fs.stat of the index.html gave: <<>>   *)
(* when it threw, <<m>> for modification time m.  lastModified is the      *)
(* field of the cached record: <<>> when missing or empty, <<t>> a time.   *)
(***************************************************************************)
\* hasChanged with >= in place of >
hasChangedOrEqual(st, lastModified) ==
    IF st = <<>> THEN TRUE
    ELSE lastModified = <<>> \/ st[1] >= lastModified[1]

\* hasChanged answering false when fs.stat throws
hasChangedFailClosed(st, lastModified) ==
    IF st = <<>> THEN FALSE
    ELSE lastModified = <<>> \/ st[1] > lastModified[1]

hasChanged(st, lastModified) ==
    IF st = <<>> THEN TRUE                      \* catch: assume changed
    ELSE lastModified = <<>> \/ st[1] > lastModified[1]

\* the condition of the if statement of the loop body
needsPublish(cached, st) ==
    cached = <<>> \/ hasChanged(st, cached[1].lastModified)

(***************************************************************************)
(* The publisher.  The location a deployment of directory path answers     *)
(* with is Url(path).  outcome is what the subprocess did: "ok" (exit 0,   *)
(* the output holds a vercel.app address), "exit" (non-zero exit),         *)
(* "timeout" (killed after 60 s), "nourl" (exit 0, no address found).      *)
(***************************************************************************)
Url(path) == [dir |-> path]
Outcomes == {"ok", "exit", "timeout", "nourl"}

\* <<url>> or <<>> for null
deployPrototype(prototype, outcome) ==
    IF outcome = "ok" THEN <<Url(prototype.path)>> ELSE <<>>

\* RecordDeployment removing the entry of the slug when the publish failed
RecordDeploymentDropsFailed(cache, proto, feature, url, t) ==
    IF url # <<>>
    THEN CacheSet(cache, proto.slug,
                  [url |-> url[1], lastModified |-> <<t>>, timestamp |-> t,
                   feature |-> feature, name |-> proto.name])
    ELSE [cache EXCEPT !.map = [s \in (DOMAIN cache.map) \ {proto.slug} |-> cache.map[s]]]

\* if (url) { deploymentCache[proto.slug] = {...} }
RecordDeployment(cache, proto, feature, url, t) ==
    IF url # <<>>
    THEN CacheSet(cache, proto.slug,
                  [url |-> url[1], lastModified |-> <<t>>, timestamp |-> t,
                   feature |-> feature, name |-> proto.name])
    ELSE cache

\* the items in the order the two nested loops visit them
RECURSIVE Flatten(_)
Flatten(entries) ==
    IF entries = <<>> THEN <<>>
    ELSE [i \in 1..Len(Head(entries).v) |->
            [feature |-> Head(entries).k, proto |-> Head(entries).v[i]]]
         \o Flatten(Tail(entries))

LoopOrder(protos) == Flatten(ObjectEntries(protos))

(***************************************************************************)
(* generateGallery: the part of the page that depends on its arguments.    *)
(* A link target is <<u>> for location u, and Hash for '#'.                *)
(***************************************************************************)
Hash == <<>>

\* TileUrl looking the record up under the display name
TileUrlByName(cache, proto) ==
    LET deployment == CacheGet(cache, proto.name)
    IN IF deployment # <<>> THEN <<deployment[1].url>> ELSE Hash

\* deploymentCache[proto.slug]?.url || '#'
TileUrl(cache, proto) ==
    LET deployment == CacheGet(cache, proto.slug)
    IN IF deployment # <<>> THEN <<deployment[1].url>> ELSE Hash

\* the <a class="tile"> element of one prototype
Tile(cache, proto) ==
    LET deployment == CacheGet(cache, proto.slug)
        url == TileUrl(cache, proto)
    IN [href |-> url,
        blocked |-> (url = Hash),         \* onclick="return false;"
        deployTime |-> IF deployment # <<>> THEN <<deployment[1].timestamp>> ELSE <<>>,
        name |-> proto.name,
        description |-> proto.description,
        status |-> IF url # Hash THEN "deployed" ELSE "pending"]

\* <div id="feature-sections">
FeatureSections(protos, cache) ==
    LET E == ObjectEntries(protos)
    IN [i \in 1..Len(E) |->
          [title |-> DashesToSpaces(E[i].k),
           tiles |-> [j \in 1..Len(E[i].v) |-> Tile(cache, E[i].v[j])]]]

\* const prototypesByFeature = JSON.stringify(Object.fromEntries(...))
RECURSIVE FromEntries(_, _)
FromEntries(entries, obj) ==
    IF entries = <<>> THEN obj
    ELSE FromEntries(Tail(entries), ObjSet(obj, Head(entries).k, Head(entries).v))

SearchData(protos, cache) ==
    LET E == ObjectEntries(protos)
    IN FromEntries(
          [i \in 1..Len(E) |->
             [k |-> E[i].k,
              v |-> [j \in 1..Len(E[i].v) |->
                       [name |-> E[i].v[j].name, slug |-> E[i].v[j].slug,
                        path |-> E[i].v[j].path,
                        description |-> E[i].v[j].description,
                        url |-> TileUrl(cache, E[i].v[j])]]]],
          <<>>)

\* generateGallery showing as pending the items published before the day of the
\* render
generateGalleryByAge(protos, cache, t) ==
    LET fresh == IF cache.kind = "object"
                 THEN [cache EXCEPT !.map =
                         [s \in {r \in DOMAIN cache.map : cache.map[r].timestamp >= t}
                            |-> cache.map[s]]]
                 ELSE cache
    IN [sections |-> FeatureSections(protos, fresh),
        prototypesByFeature |-> SearchData(protos, fresh),
        lastSync |-> t]

generateGallery(protos, cache, t) ==
    [sections |-> FeatureSections(protos, cache),
     prototypesByFeature |-> SearchData(protos, cache),
     lastSync |-> t]

(***************************************************************************)
(* The script of the page.                                                 *)
(***************************************************************************)
RECURSIVE FlatMapFeatures(_)
FlatMapFeatures(entries) ==
    IF entries = <<>> THEN <<>>
    ELSE [i \in 1..Len(Head(entries).v) |->
            [name |-> Head(entries).v[i].name, slug |-> Head(entries).v[i].slug,
             path |-> Head(entries).v[i].path,
             description |-> Head(entries).v[i].description,
             url |-> Head(entries).v[i].url,
             feature |-> Head(entries).k]]
         \o FlatMapFeatures(Tail(entries))

\* const allPrototypes
allPrototypes(doc) == FlatMapFeatures(ObjectEntries(doc.prototypesByFeature))

\* the filter of showAllResults
showAllResults(doc) == SelectSeq(allPrototypes(doc), LAMBDA p : p.url # Hash)

\* Matches without the test of the location
MatchesAnyItem(p, q) ==
    \/ includes(toLowerCase(p.name), q)
    \/ includes(toLowerCase(p.description), q)
    \/ includes(toLowerCase(p.feature), q)
    \/ includes(toLowerCase(p.slug), q)

Matches(p, q) ==
    p.url # Hash /\ ( \/ includes(toLowerCase(p.name), q)
                       \/ includes(toLowerCase(p.description), q)
                       \/ includes(toLowerCase(p.feature), q)
                       \/ includes(toLowerCase(p.slug), q) )

\* the list searchPrototypes(query) leaves in filteredResults
searchResults(doc, query) ==
    IF query = <<>> THEN showAllResults(doc)
    ELSE SelectSeq(allPrototypes(doc), LAMBDA p : Matches(p, toLowerCase(query)))

\* the selectedIndex searchPrototypes(query) leaves
searchIndex(query, sel) == IF query = <<>> THEN sel ELSE 0

Min(a, b) == IF a < b THEN a ELSE b
Max(a, b) == IF a > b THEN a ELSE b

\* navigateToPrototype going to the first result whatever the index
navigateToFirst(results, index, loc) ==
    IF results # <<>> /\ results[1].url # Hash THEN results[1].url ELSE loc

\* navigateToPrototype(index): the new window.location.href (indices from 0)
navigateToPrototype(results, index, loc) ==
    IF index >= 0 /\ index < Len(results) /\ results[index + 1].url # Hash
    THEN results[index + 1].url ELSE loc

(***************************************************************************)
(* The process: main, checkDependencies, syncPrototypes.                   *)
(***************************************************************************)
ItemPaths(t) ==
    {<<t.entries[i].name>> :
        i \in {j \in 1..Len(t.entries) :
                 t.entries[j].kind = "dir" /\ t.entries[j].index}}
    \cup UNION {{<<t.entries[i].name, t.entries[i].kids[k].name>> :
                    k \in {l \in 1..Len(t.entries[i].kids) :
                             /\ t.entries[i].kids[l].kind = "dir"
                             /\ t.entries[i].kids[l].index}}
                : i \in 1..Len(t.entries)}

\* CheckDependencies going on to the scan after a failed check
CheckDependenciesNoExit ==
    /\ pc = "main"
    /\ \E r \in {"", "noCli", "noLogin", "noRoot"} :
          /\ fatal' = r
          /\ pc' = "scan"
    /\ UNCHANGED <<fsVars, prototypes, deploymentCache, todo, cur, history,
                   fileAtStart, gallery, pageVars, sh, other, pm>>

\* checkDependencies: the CLI answers, the user is logged in, ./prototypes is a
\* directory; process.exit(1) at the first check that fails
CheckDependencies ==
    /\ pc = "main"
    /\ \E r \in {"", "noCli", "noLogin", "noRoot"} :
          /\ fatal' = r
          /\ pc' = IF r = "" THEN "scan" ELSE "exit1"
    /\ UNCHANGED <<fsVars, prototypes, deploymentCache, todo, cur, history,
                   fileAtStart, gallery, pageVars, sh, other, pm>>

\* Step 1: const prototypes = await scanPrototypes()
Scan ==
    /\ pc = "scan"
    /\ prototypes' = scanPrototypes(tree)
    /\ pc' = "load"
    /\ UNCHANGED <<fsVars, deploymentCache, todo, cur, history, fileAtStart, fatal,
                   gallery, pageVars, sh, other, pm>>

\* Step 2: const deploymentCache = await loadDeploymentCache(); the loops begin
Load ==
    /\ pc = "load"
    /\ deploymentCache' = loadDeploymentCache(cacheFile)
    /\ todo' = LoopOrder(prototypes)
    /\ pc' = "loop"
    /\ UNCHANGED <<fsVars, prototypes, cur, history, fileAtStart, fatal, gallery,
                   pageVars, sh, other, pm>>

\* Visit not awaiting the publish in flight: the next item is taken up, and its
\* publish started, while earlier ones are running
VisitParallel ==
    /\ pc \in {"loop", "deploying"}
    /\ Len(cur) < Len(todo)
    /\ ~Throws(deploymentCache)
    /\ LET feature == todo[Len(cur) + 1].feature
           proto == todo[Len(cur) + 1].proto
           cached == CacheGet(deploymentCache, proto.slug)
       IN \E st \in (IF cached = <<>> THEN {<<>>} ELSE {<<>>, <<mtime[proto.path]>>}) :
             LET v == [feature |-> feature, proto |-> proto, cached |-> cached,
                       st |-> st, needs |-> needsPublish(cached, st)]
             IN IF v.needs
                THEN /\ pc' = "deploying"
                     /\ cur' = Append(cur, v)
                     /\ UNCHANGED <<todo, history, fatal>>
                ELSE /\ cur = <<>>
                     /\ history' = Append(history,
                            [visit |-> v, ran |-> FALSE, url |-> <<>>, at |-> now])
                     /\ todo' = Tail(todo)
                     /\ UNCHANGED <<pc, cur, fatal>>
    /\ UNCHANGED <<fsVars, prototypes, deploymentCache, fileAtStart, gallery, pageVars, sh, other, pm>>

\* Step 3, one item, up to the await of deployPrototype.  Reading a property of
\* null throws; main catches it, logs "Fatal error" and exits with code 1.
Visit ==
    /\ pc = "loop"
    /\ todo # <<>>
    /\ LET feature == Head(todo).feature
           proto == Head(todo).proto
       IN IF Throws(deploymentCache)
          THEN /\ pc' = "exit1"
               /\ fatal' = "TypeError"
               /\ UNCHANGED <<todo, cur, history>>
          ELSE LET cached == CacheGet(deploymentCache, proto.slug) IN
               \E st \in (IF cached = <<>> THEN {<<>>}
                          ELSE {<<>>, <<mtime[proto.path]>>}) :
                  LET v == [feature |-> feature, proto |-> proto, cached |-> cached,
                            st |-> st, needs |-> needsPublish(cached, st)]
                  IN IF v.needs
                     THEN /\ pc' = "deploying"
                          /\ cur' = <<v>>
                          /\ UNCHANGED <<todo, history, fatal>>
                     ELSE /\ history' = Append(history,
                                 [visit |-> v, ran |-> FALSE, url |-> <<>>, at |-> now])
                          /\ todo' = Tail(todo)
                          /\ UNCHANGED <<pc, cur, fatal>>
    /\ UNCHANGED <<fsVars, prototypes, deploymentCache, fileAtStart, gallery, pageVars, sh, other, pm>>

\* DeployReturn writing the cache file after each successful publish
DeployReturnSaving ==
    /\ pc = "deploying"
    /\ \E outcome \in Outcomes, t \in {now, Min(now + 1, MaxTime)} :
          LET v == cur[1]
              url == deployPrototype(v.proto, outcome)
          IN /\ now' = t
             /\ deploymentCache' =
                    RecordDeployment(deploymentCache, v.proto, v.feature, url, t)
             /\ cacheFile' = IF url # <<>> THEN saveDeploymentCache(deploymentCache')
                             ELSE cacheFile
             /\ history' = Append(history, [visit |-> v, ran |-> TRUE, url |-> url, at |-> t])
    /\ todo' = Tail(todo)
    /\ cur' = <<>>
    /\ pc' = "loop"
    /\ UNCHANGED <<tree, mtime, prototypes, fileAtStart, fatal, gallery, pageVars, sh, other, pm>>

\* the publish subprocess of the current item ends; the cache is updated
DeployReturn ==
    /\ pc = "deploying"
    /\ \E outcome \in Outcomes, t \in {now, Min(now + 1, MaxTime)} :
          LET v == cur[1]
              url == deployPrototype(v.proto, outcome)
          IN /\ now' = t
             /\ deploymentCache' =
                    RecordDeployment(deploymentCache, v.proto, v.feature, url, t)
             /\ history' = Append(history, [visit |-> v, ran |-> TRUE, url |-> url, at |-> t])
    /\ todo' = Tail(todo)
    /\ cur' = <<>>
    /\ pc' = "loop"
    /\ UNCHANGED <<tree, mtime, cacheFile, prototypes, fileAtStart, fatal, gallery,
                   pageVars, sh, other, pm>>

\* Save, and the steps after it, not waiting for the loop to visit every item
SaveEarly ==
    /\ pc = "loop"
    /\ \E ok \in BOOLEAN :
          IF ok
          THEN /\ cacheFile' = saveDeploymentCache(deploymentCache)
               /\ pc' = "render"
               /\ UNCHANGED fatal
          ELSE /\ pc' = "exit1"
               /\ fatal' = "writeFailed"
               /\ UNCHANGED cacheFile
    /\ UNCHANGED <<tree, mtime, now, prototypes, deploymentCache, todo, cur, history,
                   fileAtStart, gallery, pageVars, sh, other, pm>>

\* Step 4: await saveDeploymentCache(deploymentCache).  A failed write throws;
\* main catches it and exits with code 1.
Save ==
    /\ pc = "loop"
    /\ todo = <<>>
    /\ \E ok \in BOOLEAN :
          IF ok
          THEN /\ cacheFile' = saveDeploymentCache(deploymentCache)
               /\ pc' = "render"
               /\ UNCHANGED fatal
          ELSE /\ pc' = "exit1"
               /\ fatal' = "writeFailed"
               /\ UNCHANGED cacheFile
    /\ UNCHANGED <<tree, mtime, now, prototypes, deploymentCache, todo, cur, history,
                   fileAtStart, gallery, pageVars, sh, other, pm>>

\* Step 5: await generateGallery(prototypes, deploymentCache).  Building the page
\* reads deploymentCache[proto.slug], and fs.writeFile of gallery/index.html may
\* throw; main catches either and exits with code 1.
Render ==
    /\ pc = "render"
    /\ \E ok \in BOOLEAN :
          IF ok /\ ~(Throws(deploymentCache) /\ LoopOrder(prototypes) # <<>>)
          THEN /\ gallery' = <<generateGallery(prototypes, deploymentCache, now)>>
               /\ pc' = "deployGallery"
               /\ UNCHANGED fatal
          ELSE /\ pc' = "exit1"
               /\ fatal' = IF ok THEN "renderTypeError" ELSE "renderFailed"
               /\ UNCHANGED gallery
    /\ UNCHANGED <<fsVars, prototypes, deploymentCache, todo, cur, history,
                   fileAtStart, pageVars, sh, other, pm>>

\* Step 6: the gallery directory is published; a failure is logged only
DeployGallery ==
    /\ pc = "deployGallery"
    /\ \E outcome \in Outcomes : pc' = "done"
    /\ UNCHANGED <<fsVars, prototypes, deploymentCache, todo, cur, history,
                   fileAtStart, fatal, gallery, pageVars, sh, other, pm>>

(***************************************************************************)
(* The environment: while a publish is running, the index.html of the item *)
(* being published, or of an item the loop has yet to visit, is edited.    *)
(* (Nothing in the run reads the file of an item the loop is done with.)   *)
(***************************************************************************)
Touch ==
    /\ pc = "deploying"
    /\ \E p \in {todo[i].proto.path : i \in 1..Len(todo)} :
          /\ mtime[p] < now
          /\ mtime' = [mtime EXCEPT ![p] = now]
    /\ UNCHANGED <<tree, cacheFile, now, runVars, gallery, pageVars, sh, other, pm>>

(***************************************************************************)
(* The events of the gallery page, once it is generated and loaded.  The   *)
(* overlay is display: none unless it has the class open, so typing and    *)
(* clicking reach it only while it is open.                                *)
(***************************************************************************)
OnGallery == <<>>
QueryChars == {"a", "X", "2"}

RECURSIVE StringsUpTo(_)
StringsUpTo(n) ==
    IF n = 0 THEN {<<>>}
    ELSE LET S == StringsUpTo(n - 1)
         IN S \cup {Append(q, c) : q \in S, c \in QueryChars}

Queries == StringsUpTo(MaxQuery)

PageLoaded == gallery # <<>> /\ location = OnGallery

\* keydown with metaKey or ctrlKey and key 'k': openCommandPalette()
KeyCmdK ==
    /\ PageLoaded
    /\ paletteOpen' = TRUE
    /\ inputValue' = <<>>
    /\ filteredResults' = showAllResults(gallery[1])
    /\ UNCHANGED <<selectedIndex, location, fsVars, runVars, gallery, sh, other, pm>>

\* keydown with key 'Escape': closeCommandPalette() when open
KeyEscape ==
    /\ PageLoaded
    /\ IF paletteOpen
       THEN paletteOpen' = FALSE /\ selectedIndex' = 0
       ELSE UNCHANGED <<paletteOpen, selectedIndex>>
    /\ UNCHANGED <<inputValue, filteredResults, location, fsVars, runVars, gallery, sh, other, pm>>

\* KeyArrowDown without the test of the class open
KeyArrowDownUnguarded ==
    /\ PageLoaded
    /\ selectedIndex' = Min(selectedIndex + 1, Len(filteredResults) - 1)
    /\ UNCHANGED <<paletteOpen, inputValue, filteredResults, location, fsVars,
                   runVars, gallery, sh, other, pm>>

\* keydown with key 'ArrowDown'
KeyArrowDown ==
    /\ PageLoaded
    /\ selectedIndex' = IF paletteOpen
                        THEN Min(selectedIndex + 1, Len(filteredResults) - 1)
                        ELSE selectedIndex
    /\ UNCHANGED <<paletteOpen, inputValue, filteredResults, location, fsVars,
                   runVars, gallery, sh, other, pm>>

\* keydown with key 'ArrowUp'
KeyArrowUp ==
    /\ PageLoaded
    /\ selectedIndex' = IF paletteOpen THEN Max(selectedIndex - 1, 0)
                        ELSE selectedIndex
    /\ UNCHANGED <<paletteOpen, inputValue, filteredResults, location, fsVars,
                   runVars, gallery, sh, other, pm>>

\* keydown with key 'Enter'
KeyEnter ==
    /\ PageLoaded
    /\ location' = IF paletteOpen
                   THEN navigateToPrototype(filteredResults, selectedIndex, location)
                   ELSE location
    /\ UNCHANGED <<paletteOpen, inputValue, selectedIndex, filteredResults, fsVars,
                   runVars, gallery, sh, other, pm>>

\* input event of cmdInput: searchPrototypes(e.target.value)
TypeQuery ==
    /\ PageLoaded
    /\ paletteOpen
    /\ \E q \in Queries \ {inputValue} :
          /\ inputValue' = q
          /\ filteredResults' = searchResults(gallery[1], q)
          /\ selectedIndex' = searchIndex(q, selectedIndex)
    /\ UNCHANGED <<paletteOpen, location, fsVars, runVars, gallery, sh, other, pm>>

\* click on the backdrop (e.target === cmdPalette): closeCommandPalette()
ClickOutside ==
    /\ PageLoaded
    /\ paletteOpen
    /\ paletteOpen' = FALSE
    /\ selectedIndex' = 0
    /\ UNCHANGED <<inputValue, filteredResults, location, fsVars, runVars, gallery, sh, other, pm>>

\* click on a rendered result row: navigateToPrototype(index)
ClickResult ==
    /\ PageLoaded
    /\ paletteOpen
    /\ \E index \in 0..(Len(filteredResults) - 1) :
          location' = navigateToPrototype(filteredResults, index, location)
    /\ UNCHANGED <<paletteOpen, inputValue, selectedIndex, filteredResults, fsVars,
                   runVars, gallery, sh, other, pm>>

(***************************************************************************)
(* deploy.sh (set -e): main calls parse_args, validate_inputs, load_config,*)
(* check_dependencies, prepare_gallery, sync_prototypes,                   *)
(* generate_gallery_index, create_vercel_config and deploy_to_vercel in    *)
(* turn.  sh.pc is the step the script is about to run, sh.code its exit   *)
(* status (<<>> while it runs), sh.fatal why it stopped before the end,    *)
(* sh.gallery what $GALLERY_DIR holds ("old": what an earlier run left).   *)
(***************************************************************************)
\* source: the listing of "$SOURCE_DIR"; gallery.files: the listing of
\* "$GALLERY_DIR"; index: the sections of the index.html that node wrote;
\* log: the messages of the last step echoed so far
ShState(p, g) ==
    [pc |-> p, code |-> <<>>, fatal |-> "", gallery |-> g,
     source |-> <<>>, index |-> <<>>, log |-> {}]

GalleryAbsent == [exists |-> FALSE, holds |-> {}, files |-> <<>>]
GalleryOld    == [exists |-> TRUE, holds |-> {"old"}, files |-> <<>>]

\* an entry of a listing: item is its name as readdir gives it, the extension
\* as its last two elements; title is the text that the <title> match and the
\* prefix strip of line 273 leave, <<>> when there is no tag or nothing is left
ShFile(item, title) == [name |-> item, kind |-> "file", title |-> title, kids |-> <<>>]
ShDir(item, kids)   == [name |-> item, kind |-> "dir", title |-> <<>>, kids |-> kids]

ShFilesIn ==
    {h \o t : h \in {<<>>, <<ShFile(<<"p", ".", "html">>, <<>>)>>,
                            <<ShFile(<<"p", ".", "html">>, <<"T">>)>>},
              t \in {<<>>, <<ShFile(<<"q", ".", "txt">>, <<>>)>>}}

\* the listings of a directory whose subdirectories nest up to depth levels
RECURSIVE ShListings(_)
ShSub(item, depth) ==
    IF depth = 0 THEN {<<>>}
    ELSE {<<>>} \cup {<<ShDir(item, k)>> : k \in ShListings(depth - 1)}

ShListings(depth) ==
    {d \o f : d \in ShSub(<<"b">>, depth), f \in ShFilesIn}

\* the source directories the script is run on
SourceDirs(depth) ==
    {a \o b \o f : a \in ShSub(<<"a">>, depth), b \in ShSub(<<"b">>, 1),
                    f \in ShFilesIn}

\* item.endsWith('.html')
EndsWithHtml(item) ==
    Len(item) >= 2 /\ SubSeq(item, Len(item) - 1, Len(item)) = <<".", "html">>

\* path.basename(item, '.html')
Basename(item) ==
    IF EndsWithHtml(item) /\ Len(item) > 2 THEN SubSeq(item, 1, Len(item) - 2)
    ELSE item

\* scanDirectory(dir, category) of the node -e script: the records pushed, in
\* the order of the pushes; the empty string is <<>>, a path is the sequence
\* of its components
RECURSIVE scanDirectory(_, _)
scanDirectory(items, category) ==
    IF items = <<>> THEN <<>>
    ELSE LET item == Head(items)
             baseName == Basename(item.name)
             relativePath == IF category # <<>> THEN <<category, item.name>>
                             ELSE <<item.name>>
             found ==
                IF item.kind = "dir"
                THEN scanDirectory(item.kids,
                                   IF category # <<>> THEN category ELSE item.name)
                ELSE IF item.kind = "file" /\ EndsWithHtml(item.name)
                THEN << [category |-> IF category # <<>> THEN category
                                      ELSE <<"g", "e", "n", "e", "r", "a", "l">>,
                         name |-> IF item.title # <<>> THEN item.title
                                  ELSE CapitalizeWords(DashesToSpaces(baseName)),
                         slug |-> baseName,
                         path |-> relativePath,
                         url  |-> <<<<".">>>> \o relativePath] >>
                ELSE <<>>
         IN found \o scanDirectory(Tail(items), category)

\* the keys of the prototypes object in the order of their first push
RECURSIVE ShCategories(_)
ShCategories(pushed) ==
    IF pushed = <<>> THEN <<>>
    ELSE LET rest == ShCategories(SubSeq(pushed, 1, Len(pushed) - 1))
             c == pushed[Len(pushed)].category
         IN IF \E i \in 1..Len(rest) : rest[i] = c THEN rest ELSE Append(rest, c)

\* the feature sections of the page of generateIndex: one per category, the
\* tiles of its records in the order of the pushes
generateIndex(files) ==
    LET pushed == scanDirectory(files, <<>>)
        cats == ShCategories(pushed)
        InCat(c) == SelectSeq(pushed, LAMBDA e : e.category = c)
    IN [i \in 1..Len(cats) |->
          [title |-> DashesToSpaces(cats[i]),
           tiles |-> [j \in 1..Len(InCat(cats[i])) |->
                        [href |-> InCat(cats[i])[j].url,
                         name |-> InCat(cats[i])[j].name]]]]

\* exit c
ShExit(s, c, why) == [s EXCEPT !.pc = "exit", !.code = <<c>>, !.fatal = why]

\* what a step leaves: it goes on to the step next, or one of its checks fails
\* and it exits with status 1
ShOutcomes(s, next, failures) ==
    {[s EXCEPT !.pc = next]} \cup {ShExit(s, 1, r) : r \in failures}

parse_args ==
    /\ sh.pc = "main"
    /\ \E a \in {"ok", "help", "unknown"} :
          sh' = CASE a = "ok"      -> [sh EXCEPT !.pc = "validate_inputs"]
                  [] a = "help"    -> ShExit(sh, 0, "help")
                  [] a = "unknown" -> ShExit(sh, 1, "unknownOption")
    /\ UNCHANGED <<fsVars, runVars, gallery, pageVars, other, pm>>

validate_inputs ==
    /\ sh.pc = "validate_inputs"
    /\ sh' \in ShOutcomes(sh, "load_config",
                          {"noSourceArg", "noConfigArg", "noSourceDir"})
    /\ UNCHANGED <<fsVars, runVars, gallery, pageVars, other, pm>>

load_config ==
    /\ sh.pc = "load_config"
    /\ sh' \in ShOutcomes(sh, "check_dependencies",
                          {"noConfigFile", "noProjectName", "noVercelName"})
    /\ UNCHANGED <<fsVars, runVars, gallery, pageVars, other, pm>>

check_dependencies ==
    /\ sh.pc = "check_dependencies"
    /\ sh' \in ShOutcomes(sh, "prepare_gallery", {"noNode", "noCli", "noLogin"})
    /\ UNCHANGED <<fsVars, runVars, gallery, pageVars, other, pm>>

\* rm -rf "$GALLERY_DIR" when it is a directory, then mkdir -p
prepare_gallery ==
    /\ sh.pc = "prepare_gallery"
    /\ sh' = [sh EXCEPT !.pc = "sync_prototypes",
                        !.gallery = [exists |-> TRUE, holds |-> {}, files |-> <<>>]]
    /\ UNCHANGED <<fsVars, runVars, gallery, pageVars, other, pm>>

\* rsync of the source directory into the gallery; a failing rsync ends the
\* script (set -e); the else branch, taken when the source directory that
\* validate_inputs saw is a directory no longer, exits with status 1
sync_prototypes ==
    /\ sh.pc = "sync_prototypes"
    /\ \E r \in {"", "sourceDirGone", "rsyncFailed"} :
          sh' = IF r = ""
                THEN [sh EXCEPT !.pc = "generate_gallery_index",
                                !.gallery.holds = @ \cup {"prototypes"},
                                !.gallery.files = sh.source]
                ELSE ShExit(sh, 1, r)
    /\ UNCHANGED <<fsVars, runVars, gallery, pageVars, other, pm>>

\* node -e "... generateIndex().catch(console.error)": an error of the scan or of
\* the write is printed and node exits with status 0
generate_gallery_index ==
    /\ sh.pc = "generate_gallery_index"
    /\ \E ok \in BOOLEAN :
          sh' = [sh EXCEPT !.pc = "create_vercel_config",
                           !.gallery.holds = IF ok THEN @ \cup {"index"} ELSE @,
                           !.index = IF ok THEN generateIndex(sh.gallery.files)
                                     ELSE @]
    /\ UNCHANGED <<fsVars, runVars, gallery, pageVars, other, pm>>

create_vercel_config ==
    /\ sh.pc = "create_vercel_config"
    /\ sh' = [sh EXCEPT !.pc = "deploy_to_vercel",
                        !.gallery.holds = @ \cup {"vercelJson"}]
    /\ UNCHANGED <<fsVars, runVars, gallery, pageVars, other, pm>>

\* deploy_output=$(vercel --prod ...): under set -e a non-zero status of the
\* command substitution ends the script at that line with that status
deploy_to_vercel ==
    /\ sh.pc = "deploy_to_vercel"
    /\ \E status \in {0, 1} :
          sh' = IF status = 0
                THEN [ShExit(sh, 0, "") EXCEPT
                         !.log = {"Deployment successful!", "Deployment complete!"}]
                ELSE ShExit(sh, status, "vercelFailed")
    /\ UNCHANGED <<fsVars, runVars, gallery, pageVars, other, pm>>

(***************************************************************************)
(* A second run of sync-prototypes.js, started in the same directory while *)
(* the first one is running (nothing locks gallery/deployments.json).  It  *)
(* scans the same tree; other.deploymentCache is its own in-memory value,  *)
(* other.todo the items its loop has yet to visit.  The two runs share     *)
(* only the cache file, so the visit of one item by the second run is      *)
(* taken as one step.                                                      *)
(***************************************************************************)
OtherRun(p) == [pc |-> p, deploymentCache |-> EmptyObject, todo |-> <<>>]

\* Steps 1 and 2 of the second run
OtherLoad ==
    /\ other.pc = "load"
    /\ other' = [other EXCEPT !.pc = "loop",
                              !.deploymentCache = loadDeploymentCache(cacheFile),
                              !.todo = LoopOrder(scanPrototypes(tree))]
    /\ UNCHANGED <<fsVars, runVars, gallery, pageVars, sh, pm>>

\* Step 3 of the second run, one item
OtherVisit ==
    /\ other.pc = "loop"
    /\ other.todo # <<>>
    /\ LET feature == Head(other.todo).feature
           proto == Head(other.todo).proto
       IN IF Throws(other.deploymentCache)
          THEN other' = [other EXCEPT !.pc = "exit1"]
          ELSE LET cached == CacheGet(other.deploymentCache, proto.slug) IN
               \E st \in (IF cached = <<>> THEN {<<>>}
                          ELSE {<<>>, <<mtime[proto.path]>>}),
                  outcome \in Outcomes :
                  LET url == IF needsPublish(cached, st)
                             THEN deployPrototype(proto, outcome) ELSE <<>>
                  IN other' =
                       [other EXCEPT
                          !.todo = Tail(@),
                          !.deploymentCache =
                              RecordDeployment(@, proto, feature, url, now)]
    /\ UNCHANGED <<fsVars, runVars, gallery, pageVars, sh, pm>>

\* OtherSave merging the records of the file into what it writes
OtherSaveMerging ==
    /\ other.pc = "loop"
    /\ other.todo = <<>>
    /\ cacheFile.kind = "object" /\ other.deploymentCache.kind = "object"
    /\ cacheFile' =
          [kind |-> "object",
           map |-> [s \in DOMAIN cacheFile.map \cup DOMAIN other.deploymentCache.map |->
                      IF s \in DOMAIN other.deploymentCache.map
                      THEN other.deploymentCache.map[s] ELSE cacheFile.map[s]]]
    /\ other' = [other EXCEPT !.pc = "done"]
    /\ UNCHANGED <<tree, mtime, now, runVars, gallery, pageVars, sh, pm>>

\* Step 4 of the second run
OtherSave ==
    /\ other.pc = "loop"
    /\ other.todo = <<>>
    /\ \E ok \in BOOLEAN :
          IF ok
          THEN /\ cacheFile' = saveDeploymentCache(other.deploymentCache)
               /\ other' = [other EXCEPT !.pc = "done"]
          ELSE /\ other' = [other EXCEPT !.pc = "exit1"]
               /\ UNCHANGED cacheFile
    /\ UNCHANGED <<tree, mtime, now, runVars, gallery, pageVars, sh, pm>>

(***************************************************************************)
(* Initial states.                                                         *)
(***************************************************************************)
\* the trees without unreadable entries, plain files and excluded
\* names, holding at most MaxItems prototypes
RunKidEntries(n) == {Kid(n, "dir", TRUE, FALSE)}

RunTopEntries(n, maxKids) ==
    {Top(n, "dir", TRUE, TRUE, <<>>), Top(n, "dir", FALSE, FALSE, <<>>)}
    \cup {Top(n, "dir", FALSE, TRUE, ks) :
            ks \in Listings(UNION {RunKidEntries(k) : k \in KidNames \ excludeDirs},
                            maxKids)}

RunTrees(maxTop, maxKids, maxItems) ==
    {t \in {[rootOK |-> FALSE, entries |-> <<>>]} \cup
           {[rootOK |-> TRUE, entries |-> es] :
               es \in Listings(UNION {RunTopEntries(n, maxKids) :
                                          n \in TopNames \ excludeDirs},
                               maxTop)} :
        Cardinality(ItemPaths(t)) <= maxItems}

\* a record an earlier run left in the cache file
FileRecord(slug, t) ==
    [url |-> Url(<<slug>>), lastModified |-> <<t>>, timestamp |-> t,
     feature |-> <<"a", "i">>, name |-> formatName(slug)]

FileSlugs == {<<"x">>, <<"a", "i">>}

FileMaps ==
    UNION {[D -> {0, 1}] : D \in SUBSET FileSlugs}

CacheFiles ==
    {[kind |-> k, map |-> EmptyMap] :
        k \in {"missing", "unreadable", "malformed", "null", "number"}}
    \cup {[kind |-> "object", map |-> [s \in DOMAIN m |-> FileRecord(s, m[s])]] :
            m \in FileMaps}

PageInit ==
    /\ paletteOpen = FALSE
    /\ inputValue = <<>>
    /\ selectedIndex = 0
    /\ filteredResults = <<>>
    /\ location = OnGallery

(***************************************************************************)
(* prototype-manager: setup.js and cli.js.  pm.config is the content of    *)
(* prototype-manager/config.json (<<>> when the file is missing), pm.root  *)
(* the HTML files in the root directory, pm.dirs the directories of        *)
(* prototypes/ in the order of readdir (<<>> when prototypes/ is missing), *)
(* each with the content of its index.html and of its vercel.json (<<>>    *)
(* when missing).  One program runs at a time; pm.prog is the program      *)
(* started last, pm.argv its arguments, pm.tool the outcome of its         *)
(* 'vercel --yes --prod', pm.out its last message and pm.configAtStart the *)
(* content of config.json when it was started.                             *)
(***************************************************************************)
DefaultConfig ==
    [prototypesPath |-> "../prototypes", deployments |-> <<>>,
     defaultSettings |-> [public |-> TRUE, framework |-> "null"]]

\* two of the four names of htmlFiles
htmlFiles == <<<<"s", ".", "html">>, <<"w", ".", "html">>>>

\* file.replace('.html', ''): the first occurrence is removed
ReplaceHtml(file) ==
    LET at == {i \in 1..(Len(file) - 1) : file[i] = "." /\ file[i + 1] = "html"}
    IN IF at = {} THEN file
       ELSE LET i == CHOOSE i \in at : \A j \in at : i <= j
            IN SubSeq(file, 1, i - 1) \o SubSeq(file, i + 2, Len(file))

PmDir(index, vercel) == [index |-> index, vercel |-> vercel]

PmState(config, root, dirs) ==
    [pc |-> "idle", prog |-> "", argv |-> <<>>, tool |-> <<>>, out |-> "",
     code |-> <<>>, runs |-> 0, config |-> config, configAtStart |-> config,
     root |-> root, dirs |-> dirs, gitignore |-> FALSE]

PmIdle == PmState(<<>>, {}, <<>>)

\* a program is started when none is running
PmCanStart == pm.pc \in {"idle", "exit"} /\ pm.runs < MaxRuns

PmStarted(prog, argv) ==
    [pm EXCEPT !.prog = prog, !.argv = argv, !.tool = <<>>, !.out = "",
               !.code = <<>>, !.runs = @ + 1, !.configAtStart = pm.config]

PmExit(s, c, msg) == [s EXCEPT !.pc = "exit", !.code = <<c>>, !.out = msg]

\* Step 1: vercel --version, and npm install -g vercel when that fails
Step1_CheckVercelCli ==
    /\ PmCanStart
    /\ \E cli \in {"installed", "installs", "installFails"} :
          pm' = IF cli = "installFails"
                THEN PmExit(PmStarted("setup.js", <<>>), 1, "Failed to install Vercel CLI")
                ELSE [PmStarted("setup.js", <<>>) EXCEPT !.pc = "step2"]
    /\ UNCHANGED <<fsVars, runVars, gallery, pageVars, sh, other>>

\* Step 2: mkdir prototypes when it does not exist
Step2_CreatePrototypesDir ==
    /\ pm.pc = "step2"
    /\ pm' = [pm EXCEPT !.pc = "step3",
                        !.dirs = IF @ = <<>> THEN <<EmptyMap>> ELSE @]
    /\ UNCHANGED <<fsVars, runVars, gallery, pageVars, sh, other>>

\* htmlFiles.forEach: each file that exists in the root directory is copied to
\* prototypes/<name>/index.html; the copy holds the content of the file
RECURSIVE Organize(_, _, _)
Organize(files, root, dirs) ==
    IF files = <<>> THEN dirs
    ELSE LET file == Head(files)
             prototypeName == ReplaceHtml(file)
             targetDir == IF ObjHas(dirs, prototypeName)
                          THEN ObjGet(dirs, prototypeName)
                          ELSE PmDir(<<>>, <<>>)
         IN Organize(Tail(files), root,
                     IF file \in root
                     THEN ObjSet(dirs, prototypeName,
                                 [targetDir EXCEPT !.index = <<file>>])
                     ELSE dirs)

Step3_OrganizePrototypes ==
    /\ pm.pc = "step3"
    /\ pm' = [pm EXCEPT !.pc = "step4",
                        !.dirs = <<Organize(htmlFiles, pm.root, pm.dirs[1])>>]
    /\ UNCHANGED <<fsVars, runVars, gallery, pageVars, sh, other>>

\* config.json is kept when it exists, and written only when it is missing
Step4_KeepConfigFile ==
    /\ pm.pc = "step4"
    /\ pm' = [pm EXCEPT !.pc = "step5",
                        !.config = IF @ = <<>> THEN <<DefaultConfig>> ELSE @]
    /\ UNCHANGED <<fsVars, runVars, gallery, pageVars, sh, other>>

\* Step 4: fs.writeFileSync(configPath, JSON.stringify(config, null, 2))
Step4_CreateConfigFile ==
    /\ pm.pc = "step4"
    /\ pm' = [pm EXCEPT !.pc = "step5", !.config = <<DefaultConfig>>]
    /\ UNCHANGED <<fsVars, runVars, gallery, pageVars, sh, other>>

\* prototypeDirs.forEach: a vercel.json is written where there is none
CreateVercelJson(dirs) ==
    [i \in 1..Len(dirs) |->
        IF dirs[i].v.vercel = <<>>
        THEN [dirs[i] EXCEPT
                 !.v.vercel = <<[name |-> <<"prototype-">> \o dirs[i].k]>>]
        ELSE dirs[i]]

Step5_CreateVercelJson ==
    /\ pm.pc = "step5"
    /\ pm' = [pm EXCEPT !.pc = "step6", !.dirs = <<CreateVercelJson(pm.dirs[1])>>]
    /\ UNCHANGED <<fsVars, runVars, gallery, pageVars, sh, other>>

\* Step 6: prototypes/.gitignore is written, and the script ends
Step6_CreateGitignore ==
    /\ pm.pc = "step6"
    /\ pm' = PmExit([pm EXCEPT !.gitignore = TRUE], 0, "Setup complete!")
    /\ UNCHANGED <<fsVars, runVars, gallery, pageVars, sh, other>>

\* cli.js, lines 18-29: the default config, or the content of config.json
loadConfig(file) == IF file # <<>> THEN file[1] ELSE DefaultConfig

\* getPrototypes(): the directories of prototypes/ that hold an index.html or a
\* vercel.json (the directories of the model hold no directories)
getPrototypes(dirs) ==
    IF dirs = <<>> THEN <<>>
    ELSE LET found == SelectSeq(dirs[1], LAMBDA e : e.v.index # <<>> \/ e.v.vercel # <<>>)
         IN [i \in 1..Len(found) |-> found[i].k]

PmResults == {"url", "noUrl", "failed"}

\* deployPrototype(prototypeName) of cli.js in the process s whose config is
\* config; result is what execSync('vercel --yes --prod') did: it threw
\* ("failed"), or returned output with ("url") or without ("noUrl") a line
\* that holds https://
cliDeployPrototypeAlways(s, config, prototypeName, result, t) ==
    IF ~(s.dirs # <<>> /\ ObjHas(s.dirs[1], prototypeName))
    THEN PmExit(s, 1, "Prototype not found")
    ELSE LET ran == [s EXCEPT !.tool = <<result>>]
         IN IF result = "failed" THEN PmExit(ran, 0, "Deployment failed:")
            ELSE PmExit([ran EXCEPT !.config =
                            <<[config EXCEPT !.deployments =
                                 ObjSet(@, prototypeName,
                                        [url |-> Url(<<prototypeName>>),
                                         deployedAt |-> t,
                                         path |-> prototypeName])]>>],
                        0, "Deployment successful!")

cliDeployPrototype(s, config, prototypeName, result, t) ==
    IF ~(s.dirs # <<>> /\ ObjHas(s.dirs[1], prototypeName))
    THEN PmExit(s, 1, "Prototype not found")
    ELSE LET ran == [s EXCEPT !.tool = <<result>>]
         IN CASE result = "failed" -> PmExit(ran, 0, "Deployment failed:")
              [] result = "noUrl" ->
                    PmExit(ran, 0, "Deployment completed but URL not captured.")
              [] result = "url" ->
                    PmExit([ran EXCEPT !.config =
                              <<[config EXCEPT !.deployments =
                                   ObjSet(@, prototypeName,
                                          [url |-> Url(<<prototypeName>>),
                                           deployedAt |-> t,
                                           path |-> prototypeName])]>>],
                           0, "Deployment successful!")

\* interactiveDeploy(): the prototype is chosen at the prompt
interactiveDeploy(s, config, result, t) ==
    LET prototypes_ == getPrototypes(s.dirs)
    IN IF Len(prototypes_) = 0 THEN {PmExit(s, 0, "No prototypes found.")}
       ELSE {cliDeployPrototype(s, config, prototypes_[i], result, t) :
               i \in 1..Len(prototypes_)}

\* the names given on the command line; <<>>: none is given
PmArgs == {<<"s">>, <<"x">>, <<"z">>}

\* case 'deploy'
CliDeploy ==
    /\ PmCanStart
    /\ \E arg \in PmArgs \cup {<<>>}, result \in PmResults :
          LET s == PmStarted("cli.js", <<"deploy", arg>>)
              config == loadConfig(pm.config)
          IN pm' \in IF arg # <<>>
                     THEN {cliDeployPrototype(s, config, arg, result, now)}
                     ELSE interactiveDeploy(s, config, result, now)
    /\ UNCHANGED <<fsVars, runVars, gallery, pageVars, sh, other>>

\* case 'list': listPrototypes() prints, and changes nothing
listPrototypes(s) ==
    IF Len(getPrototypes(s.dirs)) = 0 THEN PmExit(s, 0, "No prototypes found.")
    ELSE PmExit(s, 0, "Available Prototypes:")

CliList ==
    /\ PmCanStart
    /\ pm' = listPrototypes(PmStarted("cli.js", <<"list", <<>>>>))
    /\ UNCHANGED <<fsVars, runVars, gallery, pageVars, sh, other>>

\* quickDeploy(): an HTML file of the current directory is copied to
\* prototypes/quick-<Date.now()>/index.html and deployed; with no HTML file
\* there, interactiveDeploy()
quickDeploy(s, config, localHtml, result, t) ==
    CASE localHtml = "none"   -> interactiveDeploy(s, config, result, t)
      [] localHtml = "cancel" -> {PmExit(s, 0, "")}
      [] localHtml = "file"   ->
            LET tempName == <<"quick-", ToString(t)>>
                made == ObjSet(IF s.dirs = <<>> THEN EmptyMap ELSE s.dirs[1],
                               tempName, PmDir(<<<<"local">>>>, <<>>))
            IN {cliDeployPrototype([s EXCEPT !.dirs = <<made>>], config,
                                   tempName, result, t)}

\* case 'quick'
CliQuick ==
    /\ PmCanStart
    /\ \E localHtml \in {"none", "cancel", "file"}, result \in PmResults :
          pm' \in quickDeploy(PmStarted("cli.js", <<"quick", <<>>>>),
                              loadConfig(pm.config), localHtml, result, now)
    /\ UNCHANGED <<fsVars, runVars, gallery, pageVars, sh, other>>

\* getUrl(prototypeName) prints, and changes nothing
getUrl(s, config, prototypeName) ==
    IF ObjHas(config.deployments, prototypeName)
    THEN PmExit(s, 0, "url")
    ELSE PmExit(s, 0, "has not been deployed yet.")

\* case 'url'
CliUrl ==
    /\ PmCanStart
    /\ \E arg \in PmArgs \cup {<<>>} :
          LET s == PmStarted("cli.js", <<"url", arg>>)
          IN pm' = IF arg # <<>> THEN getUrl(s, loadConfig(pm.config), arg)
                   ELSE PmExit(s, 0, "Please specify a prototype name")
    /\ UNCHANGED <<fsVars, runVars, gallery, pageVars, sh, other>>

\* default: the usage text
CliHelp ==
    /\ PmCanStart
    /\ pm' = PmExit(PmStarted("cli.js", <<"", <<>>>>), 0, "Prototype Manager")
    /\ UNCHANGED <<fsVars, runVars, gallery, pageVars, sh, other>>

\* time passes between two programs
PmTick ==
    /\ pm.pc \in {"idle", "exit"}
    /\ now < MaxTime
    /\ now' = now + 1
    /\ UNCHANGED <<tree, mtime, cacheFile, runVars, gallery, pageVars, sh, other, pm>>

\* node sync-prototypes.js is started
InitSyncJs ==
    /\ tree \in RunTrees(MaxTop, MaxKids, MaxItems)
    /\ mtime \in [ItemPaths(tree) -> {0, 1}]
    /\ cacheFile \in CacheFiles
    /\ now = 1
    /\ pc = "main"
    /\ prototypes = <<>>
    /\ deploymentCache = EmptyObject
    /\ todo = <<>>
    /\ cur = <<>>
    /\ history = <<>>
    /\ fileAtStart = cacheFile
    /\ fatal = ""
    /\ gallery = <<>>
    /\ PageInit
    /\ sh = ShState("idle", GalleryAbsent)
    /\ other = OtherRun("idle")
    /\ pm = PmIdle

\* deploy.sh is started, with or without a gallery directory of an earlier run
InitDeploySh ==
    /\ tree = [rootOK |-> FALSE, entries |-> <<>>]
    /\ mtime = [p \in ItemPaths(tree) |-> 0]
    /\ cacheFile = [kind |-> "missing", map |-> EmptyMap]
    /\ now = 1
    /\ pc = "idle"
    /\ prototypes = <<>>
    /\ deploymentCache = EmptyObject
    /\ todo = <<>>
    /\ cur = <<>>
    /\ history = <<>>
    /\ fileAtStart = cacheFile
    /\ fatal = ""
    /\ gallery = <<>>
    /\ PageInit
    /\ sh \in {[ShState("main", g) EXCEPT !.source = d] :
                   g \in {GalleryAbsent, GalleryOld}, d \in SourceDirs(MaxDepth)}
    /\ other = OtherRun("idle")
    /\ pm = PmIdle

\* one of the two scripts is started
Init == InitSyncJs \/ InitDeploySh

Next ==
    \/ CheckDependencies
    \/ Scan
    \/ Load
    \/ Visit
    \/ DeployReturn
    \/ Save
    \/ Render
    \/ DeployGallery
    \/ Touch
    \/ parse_args
    \/ validate_inputs
    \/ load_config
    \/ check_dependencies
    \/ prepare_gallery
    \/ sync_prototypes
    \/ generate_gallery_index
    \/ create_vercel_config
    \/ deploy_to_vercel

Spec == Init /\ [][Next]_vars

(***************************************************************************)
(* The scanner alone, over every tree of the bounds.                       *)
(***************************************************************************)
InitScan ==
    /\ tree \in Trees(MaxTop, MaxKids)
    /\ mtime = [p \in ItemPaths(tree) |-> 0]
    /\ cacheFile = [kind |-> "missing", map |-> EmptyMap]
    /\ now = 1
    /\ pc = "scan"
    /\ prototypes = <<>>
    /\ deploymentCache = EmptyObject
    /\ todo = <<>>
    /\ cur = <<>>
    /\ history = <<>>
    /\ fileAtStart = cacheFile
    /\ fatal = ""
    /\ gallery = <<>>
    /\ PageInit
    /\ sh = ShState("idle", GalleryAbsent)
    /\ other = OtherRun("idle")
    /\ pm = PmIdle

NextScan == Scan

SpecScan == InitScan /\ [][NextScan]_vars

(***************************************************************************)
(* The renderer and the page, over every scan result and cache of the      *)
(* bounds.                                                                 *)
(***************************************************************************)
PageCaches ==
    {[kind |-> "number", map |-> EmptyMap]}
    \cup {[kind |-> "object", map |-> [s \in DOMAIN m |-> FileRecord(s, m[s])]] :
            m \in FileMaps}

InitPage ==
    /\ tree \in RunTrees(MaxTop, MaxKids, MaxItems)
    /\ mtime = [p \in ItemPaths(tree) |-> 0]
    /\ cacheFile = [kind |-> "missing", map |-> EmptyMap]
    /\ now = 1
    /\ pc = "render"
    /\ prototypes = scanPrototypes(tree)
    /\ deploymentCache \in PageCaches
    /\ todo = <<>>
    /\ cur = <<>>
    /\ history = <<>>
    /\ fileAtStart = cacheFile
    /\ fatal = ""
    /\ gallery = <<>>
    /\ PageInit
    /\ sh = ShState("idle", GalleryAbsent)
    /\ other = OtherRun("idle")
    /\ pm = PmIdle

NextPage ==
    \/ Render
    \/ KeyCmdK
    \/ KeyEscape
    \/ KeyArrowDown
    \/ KeyArrowUp
    \/ KeyEnter
    \/ TypeQuery
    \/ ClickOutside
    \/ ClickResult

SpecPage == InitPage /\ [][NextPage]_vars

(***************************************************************************)
(* Two runs of the pipeline in the same directory, from the load of the    *)
(* cache to its save.  The cache file holds an object, whose records are   *)
(* older than the files.                                                   *)
(***************************************************************************)
InitRace ==
    /\ tree \in RunTrees(MaxTop, MaxKids, MaxItems)
    /\ mtime = [p \in ItemPaths(tree) |-> 1]
    /\ cacheFile \in {[kind |-> "object", map |-> [s \in D |-> FileRecord(s, 0)]] :
                         D \in SUBSET FileSlugs}
    /\ now = 1
    /\ pc = "load"
    /\ prototypes = scanPrototypes(tree)
    /\ deploymentCache = EmptyObject
    /\ todo = <<>>
    /\ cur = <<>>
    /\ history = <<>>
    /\ fileAtStart = cacheFile
    /\ fatal = ""
    /\ gallery = <<>>
    /\ PageInit
    /\ sh = ShState("idle", GalleryAbsent)
    /\ other = OtherRun("load")
    /\ pm = PmIdle

NextRace ==
    \/ Load
    \/ Visit
    \/ DeployReturn
    \/ Save
    \/ OtherLoad
    \/ OtherVisit
    \/ OtherSave

SpecRace == InitRace /\ [][NextRace]_vars

\* the states of the root directory, of prototypes/ and of config.json that
\* setup.js and cli.js are started in
PmRecord(name, t) ==
    [url |-> Url(<<name>>), deployedAt |-> t, path |-> name]

PmConfigs ==
    {<<>>, <<DefaultConfig>>,
     <<[DefaultConfig EXCEPT !.deployments =
           <<[k |-> <<"s">>, v |-> PmRecord(<<"s">>, 0)]>>]>>}

PmDirsAtStart ==
    {<<>>} \cup
    {<<s \o x>> :
        s \in {<<>>} \cup {<<[k |-> <<"s">>, v |-> PmDir(i, v)]>> :
                             i \in {<<>>, <<<<"own">>>>},
                             v \in {<<>>, <<[name |-> <<"mine">>]>>}},
        x \in {<<>>, <<[k |-> <<"x">>, v |-> PmDir(<<<<"own">>>>, <<>>)]>>,
               <<[k |-> <<"x">>,
                  v |-> PmDir(<<<<"own">>>>, <<[name |-> <<"mine">>]>>)]>>}}

InitPm ==
    /\ tree = [rootOK |-> FALSE, entries |-> <<>>]
    /\ mtime = [p \in ItemPaths(tree) |-> 0]
    /\ cacheFile = [kind |-> "missing", map |-> EmptyMap]
    /\ now = 1
    /\ pc = "idle"
    /\ prototypes = <<>>
    /\ deploymentCache = EmptyObject
    /\ todo = <<>>
    /\ cur = <<>>
    /\ history = <<>>
    /\ fileAtStart = cacheFile
    /\ fatal = ""
    /\ gallery = <<>>
    /\ PageInit
    /\ sh = ShState("idle", GalleryAbsent)
    /\ other = OtherRun("idle")
    /\ pm \in {PmState(c, r, d) : c \in PmConfigs,
                                  r \in SUBSET {htmlFiles[i] : i \in 1..Len(htmlFiles)},
                                  d \in PmDirsAtStart}

NextPm ==
    \/ Step1_CheckVercelCli
    \/ Step2_CreatePrototypesDir
    \/ Step3_OrganizePrototypes
    \/ Step4_CreateConfigFile
    \/ Step5_CreateVercelJson
    \/ Step6_CreateGitignore
    \/ CliDeploy
    \/ CliList
    \/ CliQuick
    \/ CliUrl
    \/ CliHelp
    \/ PmTick

SpecPm == InitPm /\ [][NextPm]_vars


(***************************************************************************)
(* Properties.                                                             *)
(***************************************************************************)
AfterLoop == pc \in {"render", "deployGallery", "done"}

\* every visit so far: the finished ones and the one whose publish is running
Visits == {history[i].visit : i \in 1..Len(history)} \cup {cur[i] : i \in 1..Len(cur)}

\* C1: when the publish of an item fails (deployPrototype returns null: the tool
\* exited non-zero, timed out, or printed no address), the whole in-memory cache,
\* and so the entry under the item's slug, is what it was before the attempt, no
\* fatal error is raised, and the loop moves on to the next item.
C1_FailedPublishKeepsCache ==
    [][ ( /\ pc = "deploying"
          /\ Len(history') = Len(history) + 1
          /\ history'[Len(history')].url = <<>> )
        => ( /\ deploymentCache' = deploymentCache
             /\ CacheGet(deploymentCache', cur[1].proto.slug) = cur[1].cached
             /\ fatal' = ""
             /\ pc' = "loop"
             /\ todo' = Tail(todo) ) ]_vars

\* a publish failed for an item that had a cached record, and the loop then
\* visited the next item
C1_Witness ==
    /\ Len(history) >= 2
    /\ history[1].ran
    /\ history[1].url = <<>>
    /\ history[1].visit.cached # <<>>

\* the cache file holds the record that the successful publish h produced
FileHolds(file, h) ==
    /\ file.kind = "object"
    /\ h.visit.proto.slug \in DOMAIN file.map
    /\ file.map[h.visit.proto.slug].url = h.url[1]
    /\ file.map[h.visit.proto.slug].lastModified = <<h.at>>

IsLastSuccess(i) ==
    /\ history[i].url # <<>>
    /\ \A j \in (i + 1)..Len(history) :
          history[j].url # <<>> => history[j].visit.proto.slug # history[i].visit.proto.slug

C3_ChangedIffLater ==
    /\ \A v \in Visits :
          (v.cached # <<>> /\ v.st # <<>> /\ v.cached[1].lastModified # <<>>)
             => (v.needs <=> v.st[1] > v.cached[1].lastModified[1])
    /\ \A i \in 1..Len(history) :
          LET v == history[i].visit IN
          (v.cached # <<>> /\ v.st # <<>> /\ v.cached[1].lastModified # <<>>)
             => (history[i].ran <=> v.st[1] > v.cached[1].lastModified[1])

\* one item with an unchanged file was skipped and one with a later file was
\* published, both having a cached record
C3_Witness ==
    /\ \E i \in 1..Len(history) :
          /\ history[i].visit.cached # <<>> /\ history[i].visit.st # <<>>
          /\ history[i].visit.st[1] <= history[i].visit.cached[1].lastModified[1]
          /\ ~history[i].ran
    /\ \E i \in 1..Len(history) :
          /\ history[i].visit.cached # <<>> /\ history[i].visit.st # <<>>
          /\ history[i].visit.st[1] > history[i].visit.cached[1].lastModified[1]
          /\ history[i].ran

\* the slugs that have a record in the cache as loaded from the file
LoadedSlugs == DOMAIN loadDeploymentCache(fileAtStart).map

\* C4 as claimed: every scanned item whose slug has no record in the loaded cache
\* has had its publish attempted by the time the loop is over.
C4_UncachedItemsAttempted ==
    AfterLoop =>
        \A k \in 1..Len(LoopOrder(prototypes)) :
            LET it == LoopOrder(prototypes)[k] IN
            it.proto.slug \notin LoadedSlugs =>
                \E i \in 1..Len(history) :
                    history[i].visit.proto.path = it.proto.path /\ history[i].ran

\* C5: when the index.html of an item that has a cached record cannot be stat'ed,
\* the change detector answers true and the publish subprocess is run.
C5_StatFailureNeedsPublish ==
    /\ \A v \in Visits : (v.cached # <<>> /\ v.st = <<>>) => v.needs
    /\ \A i \in 1..Len(history) :
          (history[i].visit.cached # <<>> /\ history[i].visit.st = <<>>) => history[i].ran

\* the stat of an item with a cached record failed and the item was published
C5_Witness ==
    \E i \in 1..Len(history) :
        /\ history[i].visit.cached # <<>>
        /\ history[i].visit.st = <<>>
        /\ history[i].ran
        /\ history[i].url # <<>>

\* C6 as claimed: whatever the cache file is (missing, unreadable, malformed, or
\* JSON that is not a mapping), loading yields the empty mapping, the run raises
\* no fatal error and every scanned item is treated as never published.
C6_AnyFileLoadsAsEmpty ==
    /\ (pc = "loop" /\ history = <<>> /\ fileAtStart.kind # "object")
          => deploymentCache = EmptyObject
    /\ fatal # "TypeError"
    /\ (pc = "loop" /\ fileAtStart.kind # "object")
          => \A i \in 1..Len(history) : history[i].visit.cached = <<>>

\* C7 as claimed: the mapping scanPrototypes returns has no category whose item
\* list is empty, also when entries cannot be stat'ed or listed.
C7_NoEmptyCategory ==
    pc = "load" => \A i \in 1..Len(prototypes) : Len(prototypes[i].v) > 0

\* the scan of root entry e throws: its stat fails, or it is a directory without
\* index.html whose listing, or the stat of one of its entries, fails
ScanFails(e) ==
    /\ e.name \notin excludeDirs
    /\ \/ e.kind = "bad"
       \/ /\ e.kind = "dir"
          /\ ~e.index
          /\ \/ ~e.list
             \/ \E k \in 1..Len(e.kids) :
                   e.kids[k].name \notin excludeDirs /\ e.kids[k].kind = "bad"

\* root entry e is a readable directory that holds an index.html, directly or in
\* a subdirectory one level down
HoldsEntryFile(e) ==
    /\ e.name \notin excludeDirs
    /\ e.kind = "dir"
    /\ ~ScanFails(e)
    /\ \/ e.index
       \/ \E k \in 1..Len(e.kids) :
             /\ e.kids[k].name \notin excludeDirs
             /\ e.kids[k].kind = "dir"
             /\ e.kids[k].index

\* C8 as claimed: when the stat or read of one entry fails, every sibling listed
\* after it that holds an entry file is still present in the scan result.
C8_SiblingsSurviveFailure ==
    pc = "load" =>
        \A i \in 1..Len(tree.entries) : \A j \in (i + 1)..Len(tree.entries) :
            (ScanFails(tree.entries[i]) /\ HoldsEntryFile(tree.entries[j]))
                => ObjHas(prototypes, tree.entries[j].name)

\* the cache holds a record under the slug
HasRecord(cache, slug) == cache.kind = "object" /\ slug \in DOMAIN cache.map

\* C9: the page has one tile per scanned item; the tile is in the deployed state,
\* a navigable link to the cached location, exactly when the cache holds a record
\* under the item's slug, and otherwise is pending, with href '#' and its click
\* cancelled.
C9_DeployedIffRecord ==
    gallery # <<>> =>
        LET E == ObjectEntries(prototypes)
            S == gallery[1].sections
        IN /\ Len(S) = Len(E)
           /\ \A i \in 1..Len(E) :
                 /\ Len(S[i].tiles) = Len(E[i].v)
                 /\ \A j \in 1..Len(E[i].v) :
                       LET tile == S[i].tiles[j]
                           slug == E[i].v[j].slug
                       IN IF HasRecord(deploymentCache, slug)
                          THEN /\ tile.status = "deployed"
                               /\ tile.href = <<deploymentCache.map[slug].url>>
                               /\ ~tile.blocked
                          ELSE /\ tile.status = "pending"
                               /\ tile.href = Hash
                               /\ tile.blocked

\* a page that shows a deployed tile and a pending tile
C9_Witness ==
    /\ gallery # <<>>
    /\ \E i \in 1..Len(gallery[1].sections) :
          \E j \in 1..Len(gallery[1].sections[i].tiles) :
             gallery[1].sections[i].tiles[j].status = "deployed"
    /\ \E i \in 1..Len(gallery[1].sections) :
          \E j \in 1..Len(gallery[1].sections[i].tiles) :
             gallery[1].sections[i].tiles[j].status = "pending"

\* C10: after any sequence of overlay events every entry of the result list is an
\* item with a record in the cache, carrying the cached location; with a cache
\* without records the result list is empty.
C10_ResultsHaveLocation ==
    /\ \A i \in 1..Len(filteredResults) :
          /\ filteredResults[i].url # Hash
          /\ HasRecord(deploymentCache, filteredResults[i].slug)
          /\ filteredResults[i].url = <<deploymentCache.map[filteredResults[i].slug].url>>
    /\ (deploymentCache.kind # "object" \/ DOMAIN deploymentCache.map = {})
          => filteredResults = <<>>

\* the overlay is open on a query that a pending item matches, and the result
\* list shows the deployed items only
C10_Witness ==
    /\ gallery # <<>>
    /\ paletteOpen
    /\ inputValue # <<>>
    /\ filteredResults # <<>>
    /\ \E i \in 1..Len(allPrototypes(gallery[1])) :
          LET p == allPrototypes(gallery[1])[i]
          IN /\ p.url = Hash
             /\ includes(toLowerCase(p.name), toLowerCase(inputValue))

\* C11: after any sequence of overlay events the highlighted index is never
\* negative, and it is smaller than the number of results whenever the result
\* list is not empty.
C11_IndexWithinResults ==
    /\ selectedIndex >= 0
    /\ filteredResults # <<>> => selectedIndex < Len(filteredResults)

\* the slugs of the scanned items
ScannedSlugs == {LoopOrder(prototypes)[i].proto.slug : i \in 1..Len(LoopOrder(prototypes))}

\* the slugs whose publish succeeded in this run
PublishedSlugs ==
    {history[i].visit.proto.slug :
        i \in {j \in 1..Len(history) : history[j].ran /\ history[j].url # <<>>}}

\* C12: once the cache is saved, the file holds every slug the loaded cache held;
\* a record differs from the loaded one only if an item of that slug was published
\* successfully in this run; a record whose item is not in the tree is unchanged,
\* has no tile, and does not make the run fail.
C12_RecordsKeptUnlessRepublished ==
    LET loaded == loadDeploymentCache(fileAtStart)
    IN /\ AfterLoop =>
            /\ cacheFile.kind = loaded.kind
            /\ LoadedSlugs \subseteq DOMAIN cacheFile.map
            /\ \A s \in LoadedSlugs :
                  cacheFile.map[s] # loaded.map[s] => s \in PublishedSlugs
            /\ \A s \in LoadedSlugs \ ScannedSlugs :
                  cacheFile.map[s] = loaded.map[s]
       /\ gallery # <<>> =>
            \A i \in 1..Len(gallery[1].sections) :
               Len(gallery[1].sections[i].tiles) = Len(ObjectEntries(prototypes)[i].v)
       /\ (loaded.kind = "object" /\ pc = "exit1") =>
            fatal \in {"noCli", "noLogin", "noRoot", "writeFailed", "renderFailed"}

\* a finished run that republished one cached item and kept the record of an item
\* that is no longer in the tree
C12_Witness ==
    /\ pc = "done"
    /\ LoadedSlugs \ ScannedSlugs # {}
    /\ \E s \in LoadedSlugs :
          cacheFile.map[s] # loadDeploymentCache(fileAtStart).map[s]

\* the run is over: syncPrototypes returned, or the process exited with code 1
RunEnded == pc \in {"done", "exit1"}

\* checkDependencies returned
PassedSetup == fatal \notin {"noCli", "noLogin", "noRoot"} /\ pc # "main"

\* saveDeploymentCache was called (it returned, or it threw)
SaveAttempted ==
    AfterLoop \/ (pc = "exit1" /\ fatal \in {"writeFailed", "renderFailed", "renderTypeError"})

\* generateGallery was called (it returned, or it threw)
RenderAttempted ==
    pc \in {"deployGallery", "done"}
    \/ (pc = "exit1" /\ fatal \in {"renderFailed", "renderTypeError"})

\* every scanned item was visited, and published if it needed publishing
AllItemsVisited ==
    /\ Len(history) = Len(LoopOrder(prototypes))
    /\ \A i \in 1..Len(history) :
          /\ history[i].visit.proto = LoopOrder(prototypes)[i].proto
          /\ history[i].visit.needs => history[i].ran

\* C13: when a run that passed the setup checks has ended, every scanned item that
\* needed publishing had its publish attempted, and the cache save and the gallery
\* render were both attempted, whichever publishes failed and whether or not the
\* write of the cache file failed.
C13_EveryStepAttempted ==
    (RunEnded /\ PassedSetup) =>
        /\ AllItemsVisited
        /\ SaveAttempted
        /\ RenderAttempted

\* generateGallery is about to be called, or was called
RenderStarted == AfterLoop \/ gallery # <<>> \/ RenderAttempted

\* C14: the gallery render and the publish of the gallery start only after the
\* publish attempt of the last scanned item has returned, and no publish of an
\* item starts once the render has started.
C14_RenderAfterLoop ==
    /\ [](RenderStarted =>
             /\ cur = <<>>
             /\ todo = <<>>
             /\ Len(history) = Len(LoopOrder(prototypes))
             /\ pc # "deploying")
    /\ [][pc' = "deploying" => ~RenderStarted /\ ~RenderStarted']_vars

\* the gallery is rendered and about to be published, after two items were visited
\* and the publish of the last one was attempted
C14_Witness ==
    /\ pc = "deployGallery"
    /\ gallery # <<>>
    /\ Len(history) = 2
    /\ history[2].ran

\* the checks of checkDependencies that failed
SetupFailures == {"noCli", "noLogin", "noRoot"}

\* the same failures as deploy.sh reports them
ShSetupFailures == {"noCli", "noLogin", "noSourceDir"}

\* C15: when the hosting CLI is missing, the user is not logged in, or the
\* prototypes directory is missing, the process exits with a non-zero code, and up
\* to the exit nothing was scanned, published, written to the cache file or
\* rendered; deploy.sh exits with a non-zero status before it has removed the
\* gallery directory.
C15_SetupFailureExitsFirst ==
    /\ [](fatal \in SetupFailures =>
             /\ pc = "exit1"
             /\ prototypes = <<>> /\ todo = <<>>
             /\ history = <<>> /\ cur = <<>>
             /\ cacheFile = fileAtStart
             /\ gallery = <<>>)
    /\ [][fatal' \in SetupFailures => pc = "main" /\ pc' = "exit1"]_vars
    /\ [](sh.fatal \in ShSetupFailures =>
             /\ sh.pc = "exit"
             /\ sh.code # <<>> /\ sh.code # <<0>>
             /\ sh.gallery \in {GalleryAbsent, GalleryOld})
    /\ [][sh'.fatal \in ShSetupFailures => sh'.gallery = sh.gallery]_vars

\* the process exited because the user is not logged in, with prototypes on disk
\* that the cache file has no record of
C15_Witness ==
    /\ pc = "exit1"
    /\ fatal = "noLogin"
    /\ ItemPaths(tree) # {}
    /\ cacheFile.kind = "missing"

\* the tiles of the page in document order
RECURSIVE FlatTiles(_)
FlatTiles(sections) ==
    IF sections = <<>> THEN <<>>
    ELSE Head(sections).tiles \o FlatTiles(Tail(sections))

\* C16: in one run the publish tool runs at most once per scanned item, and an
\* item whose publish failed is rendered with the location the cache held for it
\* when the publish was attempted, or as pending if the cache held none.
C16_FailedItemKeepsPreviousTile ==
    /\ Len(history) + Len(cur) <= Len(LoopOrder(prototypes))
    /\ \A i \in 1..Len(history) :
          history[i].visit.proto = LoopOrder(prototypes)[i].proto
    /\ gallery # <<>> =>
          \A i \in 1..Len(history) :
             (history[i].ran /\ history[i].url = <<>>) =>
                LET tile == FlatTiles(gallery[1].sections)[i]
                    cached == history[i].visit.cached
                IN IF cached # <<>>
                   THEN tile.status = "deployed" /\ tile.href = <<cached[1].url>>
                   ELSE tile.status = "pending" /\ tile.href = Hash

\* C17: at most one publish subprocess is in flight at any moment; the publish of
\* an item starts only when none is in flight, and the step that ends a publish
\* applies its cache update, if any, before the next publish can start.
C17_OnePublishInFlight ==
    /\ [](Len(cur) <= 1 /\ (pc = "deploying" <=> cur # <<>>))
    /\ [][(cur' # cur /\ cur' # <<>>) =>
             /\ cur = <<>>
             /\ pc = "loop"
             /\ deploymentCache' = deploymentCache]_vars
    /\ [][(cur # <<>> /\ cur' # cur) =>
             /\ cur' = <<>>
             /\ Len(history') = Len(history) + 1
             /\ history'[Len(history')].visit = cur[1]
             /\ deploymentCache' =
                   RecordDeployment(deploymentCache, cur[1].proto, cur[1].feature,
                                    history'[Len(history')].url, now')]_vars

\* the publish of the second item is in flight after the publish of the first one
\* returned a location, which the cache holds
C17_Witness ==
    /\ pc = "deploying"
    /\ Len(history) = 1
    /\ history[1].ran /\ history[1].url # <<>>
    /\ HasRecord(deploymentCache, history[1].visit.proto.slug)
    /\ deploymentCache.map[history[1].visit.proto.slug].url = history[1].url[1]

\* C18: two runs on the same cache file race.  Each run that has saved overwrote
\* the whole file with its own in-memory mapping, so the file is the mapping of
\* whichever run saved last (or still as it was at the start), never a merge of
\* the two; the witness is the lost record.
C18_LastSaveOverwrites ==
    \/ cacheFile = fileAtStart
    \/ pc = "render" /\ cacheFile = saveDeploymentCache(deploymentCache)
    \/ other.pc = "done" /\ cacheFile = saveDeploymentCache(other.deploymentCache)

\* both runs have saved, and a record that the first run published successfully
\* and saved is missing from the cache file
C18_Witness ==
    /\ pc = "render"
    /\ other.pc = "done"
    /\ \E i \in 1..Len(history) :
          /\ history[i].ran /\ history[i].url # <<>>
          /\ HasRecord(deploymentCache, history[i].visit.proto.slug)
          /\ history[i].visit.proto.slug \notin DOMAIN cacheFile.map

\* the entries of the root that are directories and not excluded
Categories(t) ==
    {i \in 1..Len(t.entries) :
        t.entries[i].kind = "dir" /\ t.entries[i].name \notin excludeDirs}

\* the items the category of entry e is to hold
ExpectedItems(e) ==
    IF e.index THEN <<Item(e.name, <<e.name>>)>>
    ELSE LET ks == SelectSeq(e.kids, LAMBDA k : /\ k.name \notin excludeDirs
                                                 /\ k.kind = "dir"
                                                 /\ k.index)
         IN [j \in 1..Len(ks) |-> Item(ks[j].name, <<e.name, ks[j].name>>)]

\* the items the scan result holds under a name
ItemsOf(obj, name) == IF ObjHas(obj, name) THEN ObjGet(obj, name) ELSE <<>>

\* C19: after the scan, for each directory C of the root that is not excluded: if
\* C holds the entry file, category C has exactly the one item C; otherwise it has
\* exactly the not excluded subdirectories of C that hold an entry file.  Nothing
\* else (deeper entry files, plain files, excluded names) yields an item.
C19_TwoLevelScan ==
    pc = "load" =>
        /\ \A i \in Categories(tree) :
              ItemsOf(prototypes, tree.entries[i].name) = ExpectedItems(tree.entries[i])
        /\ ObjKeys(prototypes) \subseteq {tree.entries[i].name : i \in Categories(tree)}

\* C20: when the root directory cannot be read the scan returns an empty mapping
\* and the run is not aborted: the cache is loaded and saved, the gallery is
\* rendered with no category, and the run reaches the gallery publish and its end.
C20_UnreadableRootRunCompletes ==
    (~tree.rootOK /\ pc \notin {"idle", "main", "scan"} /\ fatal \notin SetupFailures) =>
        /\ prototypes = <<>>
        /\ history = <<>> /\ cur = <<>>
        /\ pc # "exit1"
        /\ pc \in {"deployGallery", "done"} =>
              /\ gallery # <<>>
              /\ gallery[1].sections = <<>>
              /\ cacheFile = saveDeploymentCache(loadDeploymentCache(fileAtStart))

\* C21: the overlay opens on Cmd/Ctrl+K and on nothing else, and once open it
\* closes on Escape or on a click on the backdrop and on nothing else; while it is
\* closed, ArrowUp, ArrowDown and Enter change neither the highlighted index nor the
\* page location.
C21_OpenFromChordToCancel ==
    /\ [][(~paletteOpen /\ paletteOpen') => KeyCmdK]_vars
    /\ [][(paletteOpen /\ ~paletteOpen') => (KeyEscape \/ ClickOutside)]_vars
    /\ [][KeyCmdK => paletteOpen']_vars
    /\ [][(paletteOpen /\ (KeyEscape \/ ClickOutside)) => ~paletteOpen']_vars
    /\ [][(paletteOpen /\ paletteOpen') => ~(KeyEscape \/ ClickOutside)]_vars
    /\ [][(~paletteOpen /\ ~paletteOpen') =>
             (selectedIndex' = selectedIndex /\ location' = location)]_vars

\* the overlay is closed again after it was open on a list of results
C21_Witness ==
    /\ PageLoaded
    /\ ~paletteOpen
    /\ filteredResults # <<>>
    /\ selectedIndex = 0

\* C22: Enter with the overlay open navigates to the location of the result at
\* the highlighted position of the current list, a click on a result row to the
\* location of the clicked row, which is the location the cache holds for the
\* result; with an empty list, or an index that points at no result, the page
\* stays where it is.
C22_NavigatesToSelected ==
    /\ [][(KeyEnter /\ paletteOpen) =>
             location' = IF selectedIndex \in 0..(Len(filteredResults) - 1)
                         THEN filteredResults[selectedIndex + 1].url
                         ELSE location]_vars
    /\ [][ClickResult =>
             \E index \in 0..(Len(filteredResults) - 1) :
                location' = filteredResults[index + 1].url]_vars
    /\ [][location' # location =>
             /\ paletteOpen
             /\ \E i \in 1..Len(filteredResults) :
                   /\ location' = filteredResults[i].url
                   /\ HasRecord(deploymentCache, filteredResults[i].slug)
                   /\ location' = <<deploymentCache.map[filteredResults[i].slug].url>>]_vars

\* the page has navigated to the second of two results
C22_Witness ==
    /\ gallery # <<>>
    /\ Len(filteredResults) = 2
    /\ selectedIndex = 1
    /\ location = filteredResults[2].url
    /\ location # filteredResults[1].url

C24_CategoriesInScanOrder ==
    gallery # <<>> =>
        /\ Len(gallery[1].sections) = Len(prototypes)
        /\ \A i \in 1..Len(prototypes) :
              /\ gallery[1].sections[i].title = DashesToSpaces(prototypes[i].k)
              /\ Len(gallery[1].sections[i].tiles) = Len(prototypes[i].v)
              /\ \A j \in 1..Len(prototypes[i].v) :
                    gallery[1].sections[i].tiles[j].name = prototypes[i].v[j].name

\* C25: no edit is skipped.  When an item was published successfully and its
\* index.html was modified after the change detector had looked at it, that is
\* after the publish tool started on it, the change detector, given the record
\* this publish wrote, answers true for the item.
C25_EditDuringPublishDetected ==
    \A i \in 1..Len(history) :
       LET h == history[i]
           p == h.visit.proto
       IN ( /\ h.ran /\ h.url # <<>>
            /\ h.visit.st # <<>>
            /\ mtime[p.path] > h.visit.st[1]
            /\ HasRecord(deploymentCache, p.slug)
            /\ deploymentCache.map[p.slug].url = h.url[1] )
          => hasChanged(<<mtime[p.path]>>, deploymentCache.map[p.slug].lastModified)

\* C26: every tile rendered as deployed links to the location that a successful
\* publish of that same directory returned (in this run, or the one the loaded
\* cache recorded for it), so that items of the same folder name in different
\* categories do not share a record.
C26_TileLinksOwnPublish ==
    gallery # <<>> =>
        \A i \in 1..Len(LoopOrder(prototypes)) :
           LET item == LoopOrder(prototypes)[i].proto
               tile == FlatTiles(gallery[1].sections)[i]
               loaded == loadDeploymentCache(fileAtStart)
           IN tile.status = "deployed" =>
                 \/ tile.href = <<Url(item.path)>>
                 \/ /\ item.slug \in LoadedSlugs
                    /\ tile.href = <<loaded.map[item.slug].url>>

\* the HTML files under a listing, each as its own path relative to the root
\* of the listing, in the order of the walk
RECURSIVE ShHtmlPaths(_, _)
ShHtmlPaths(items, dir) ==
    IF items = <<>> THEN <<>>
    ELSE LET item == Head(items)
             here == IF item.kind = "dir"
                     THEN ShHtmlPaths(item.kids, Append(dir, item.name))
                     ELSE IF EndsWithHtml(item.name)
                     THEN <<Append(dir, item.name)>>
                     ELSE <<>>
         IN here \o ShHtmlPaths(Tail(items), dir)

ShIndexWritten == sh.pc \in {"create_vercel_config", "deploy_to_vercel", "exit"}
                  /\ "index" \in sh.gallery.holds

\* C27: in the index that deploy.sh generates, the tiles link, one for one, to
\* the HTML files under the gallery directory, each by the file's own path
\* relative to the gallery root, at any depth.
C27_TileLinksOwnPath ==
    ShIndexWritten =>
        LET pushed == scanDirectory(sh.gallery.files, <<>>)
            files == ShHtmlPaths(sh.gallery.files, <<>>)
        IN /\ Len(pushed) = Len(files)
           /\ \A i \in 1..Len(files) :
                 /\ pushed[i].url = <<<<".">>>> \o files[i]
                 /\ \E k \in 1..Len(sh.index) : \E j \in 1..Len(sh.index[k].tiles) :
                       sh.index[k].tiles[j].href = <<<<".">>>> \o files[i]

ShToolFailed == sh.pc = "exit" /\ sh.fatal = "vercelFailed"
ShToolSucceeded == sh.pc = "exit" /\ sh.fatal = "" /\ "vercelJson" \in sh.gallery.holds

\* C28: when the hosting CLI exits non-zero inside deploy_to_vercel the script
\* has logged "Deployment failed" and printed the captured output when it
\* exits, and it exits with code 1; when the tool exits zero the script reports
\* success and ends with code 0.
C28_FailureBranchReached ==
    /\ ShToolFailed =>
          /\ sh.code = <<1>>
          /\ {"Deployment failed", "deploy_output"} \subseteq sh.log
    /\ ShToolSucceeded =>
          /\ sh.code = <<0>>
          /\ "Deployment successful!" \in sh.log

PmPastStep4 ==
    /\ pm.prog = "setup.js"
    /\ \/ pm.pc \in {"step5", "step6"}
       \/ pm.pc = "exit" /\ pm.code = <<0>>

C30_ConfigChangesOnlyOnDeploy ==
    /\ [][pm'.runs # pm.runs /\ pm'.prog = "cli.js" =>
              (IF pm'.tool = <<"url">>
               THEN /\ pm'.argv[1] \in {"deploy", "quick"}
                    /\ \E name \in ObjKeys(pm'.dirs[1]) :
                          /\ ObjHas(pm'.config[1].deployments, name)
                          /\ ObjGet(pm'.config[1].deployments, name).url = Url(<<name>>)
                          /\ pm'.argv[2] # <<>> => name = pm'.argv[2]
                          /\ pm'.config =
                                <<[loadConfig(pm.config) EXCEPT !.deployments =
                                     ObjSet(@, name,
                                            ObjGet(pm'.config[1].deployments, name))]>>
               ELSE pm'.config = pm.config)]_vars
    /\ [](pm.prog = "cli.js" /\ pm.out = "Prototype not found"
            => pm.code = <<1>> /\ pm.tool = <<>> /\ pm.config = pm.configAtStart)

\* a deploy of an existing prototype succeeded and its entry was added to the
\* entries that config.json held
C30_Witness ==
    /\ pm.prog = "cli.js" /\ pm.pc = "exit" /\ pm.argv = <<"deploy", <<"x">>>>
    /\ pm.tool = <<"url">>
    /\ pm.configAtStart # <<>>
    /\ ObjKeys(pm.configAtStart[1].deployments) = {<<"s">>}
    /\ ObjKeys(pm.config[1].deployments) = {<<"s">>, <<"x">>}

====
